---- MODULE Spec2Model ----
(***************************************************************************)
(* Model of the defect-analysis pipeline of osmi_demo_1.                   *)
(*                                                                         *)
(*   Spec      one DefectAnalysisPipeline run (services/pipeline_runner.py)*)
(*             driven by an arbitrary sequence of stage-method calls.      *)
(*   SpecDirs  several runs constructed in one process: the working        *)
(*             directory chosen by ensure_pipeline_directory.              *)
(*   SpecChat  two invocations of handle_full_defect_analysis              *)
(*             (handlers/documents.py) interleaved at their await points.  *)
(*                                                                         *)
(* Scores are scaled by 10 (0.5 is 5).                                     *)
(***************************************************************************)
EXTENDS Integers, Sequences, FiniteSets, TLC

\* ------------------------------------------------------------------ bounds
MaxCalls == 6
MaxPage == 2
MaxContent == 1
MaxNames == 1
MaxClock == 3
MaxRuns == 3
TicksPerSecond == 2
MaxLen == 3
MaxTokens == 2
MaxMessages == 2

\* Python's None is the empty sequence; a value v that is set is <<v>>
None == <<>>

Some(v) == <<v>>

Get(o) == o[1]

\* ------------------------------------------------------- program constants
SEMANTIC_SCORE_THRESHOLD == 5
SEMANTIC_TOP_PAGES_LIMIT == 10
DEFECT_ANALYSIS_SCORE_THRESHOLD == 5
DEFECT_ANALYSIS_TOP_PAGES == 10

\* ---------------------------------------------------------------- helpers
Stages == <<"download", "ocr", "semantic", "vlm", "analysis">>
StageNames == {"download", "ocr", "semantic", "vlm", "analysis"}

\* the stages before stage s in the order of the run
EarlierStages(s) ==
    {Stages[i] : i \in 1..((CHOOSE k \in 1..5 : Stages[k] = s) - 1)}

RECURSIVE sorted(_)
\* sorted(set(...)) of Python: the ascending sequence of a finite set of integers
sorted(S) ==
    IF S = {} THEN <<>>
    ELSE LET least == CHOOSE x \in S : \A y \in S : x <= y
         IN  <<least>> \o sorted(S \ {least})

Range(s) == {s[i] : i \in 1..Len(s)}

\* ----------------------------------------------------------- value spaces
\* file names (stems) that occur inside one working directory
FileNames == 1..MaxNames

Pages == 1..MaxPage

\* ------------------------------------------------ Source Resolver (4.1)
\* a URL after urlparse/parse_qs: netloc, the non-empty path parts and the
\* query parameters "id" and "export" (absent parameter: empty sequence)
Url(netloc, path_parts, id, export) ==
    [netloc |-> netloc, path_parts |-> path_parts, id |-> id, export |-> export]

SourceUrls ==
    { Url("drive.google.com", <<"file", "d", "F1", "view">>, <<>>, <<>>),
      Url("drive.google.com", <<"drive", "folders">>, <<>>, <<>>) }

\* the netlocs that contain "drive.google."
DriveNetlocs == {"drive.google.com", "drive.google.ru"}

\* the empty string
EmptyString == Url("", <<>>, <<>>, <<>>)

\* the exception extract_google_drive_file_id ends with ("ok": it returns)
extract_exc(url) ==
    IF url = EmptyString THEN "ok"
    ELSE IF url.netloc = "[drive.google.com"  \* unbalanced bracket: urlparse raises
    THEN "ValueError"
    ELSE "ok"

\* the value extract_google_drive_file_id returns when it returns
extract_google_drive_file_id(url) ==
    IF url = EmptyString \/ extract_exc(url) # "ok" THEN None
    ELSE IF url.netloc \notin DriveNetlocs THEN None
    ELSE IF Len(url.path_parts) >= 3 /\ url.path_parts[1] = "file"
                                    /\ url.path_parts[2] = "d"
         THEN Some(url.path_parts[3])
    ELSE IF url.id # <<>> THEN Some(url.id[1])
    ELSE None

\* --------------------------------------------------------------- state
VARIABLES
    source_url,      \* DefectAnalysisPipeline.source_url
    files,           \* contents of pipeline_dir: path -> None or Some(file)
    file_id, pdf_path, download_info, ocr_info, semantic_info,
    vlm_info, vlm_result, analysis_info,   \* the fields set in __init__
    last,            \* observation: the last stage call, its outcome and
                     \* the external engine invocations it made, in order
    engine_runs,     \* observation: per stage, calls that reached the engine
    completed,       \* observation: stages that returned normally so far
    ncalls,
    now,             \* the wall clock, in ticks of 1/TicksPerSecond second
    run_dir,         \* SpecDirs: run -> pipeline_dir of the run, once constructed
    run_writes,      \* SpecDirs: run -> the paths the run has written
    msg,             \* SpecChat: flow -> the message the handler was called with
    flow,            \* SpecChat: flow -> position and locals of the handler
    tmp_files,       \* SpecChat: the temporary input files that exist
    result_files,    \* SpecChat: contents of the shared folder result/
    outbox,          \* SpecChat: flow -> terminal outcomes shown to the user
    args,            \* a call of one function: its arguments and engine outcomes
    ret              \* that call's result, None until it has been made

fields == <<file_id, pdf_path, download_info, ocr_info, semantic_info,
            vlm_info, vlm_result, analysis_info>>

runvars == <<source_url, files, fields, last, engine_runs, completed, ncalls>>

dirvars == <<run_dir, run_writes>>

Runs == 1..MaxRuns

\* datetime.now().strftime("%Y%m%d_%H%M%S"): the clock cut to whole seconds
strftime(t) == t \div TicksPerSecond

chatvars == <<msg, flow, tmp_files, result_files, outbox>>

callvars == <<args, ret>>

vars == <<runvars, now, dirvars, chatvars, callvars>>

Flows == {1, 2}

\* file stems in result/: the name of an uploaded file, or a name built
\* from a timestamp (document_from_url_<ts>, defect_analysis_<ts>)
Stem(kind, n) == [kind |-> kind, n |-> n]

ChatPaths ==
    {"json", "txt", "xlsx"}
    \X ([kind : {"upload"}, n : FileNames]
        \cup [kind : {"url", "report"}, n : 0..strftime(MaxClock)])

\* the locals of handle_full_defect_analysis before its first statement
NewFlow ==
    [pc |-> "new", temp_path |-> None, original_filename |-> None,
     document_data |-> None, json_file |-> None, read_doc |-> None,
     relevant_pages |-> <<>>, vlm_result |-> None, excel_path |-> None,
     excel_document |-> None]

\* the variables of a specification that does not use them
DirsIdle == run_dir = [r \in Runs |-> None] /\ run_writes = [r \in Runs |-> {}]

ChatIdle ==
    /\ msg = [f \in Flows |-> [kind |-> "text", file_name |-> 1, pdf |-> FALSE]]
    /\ flow = [f \in Flows |-> NewFlow]
    /\ tmp_files = {}
    /\ result_files = [p \in ChatPaths |-> None]
    /\ outbox = [f \in Flows |-> <<>>]

CallIdle == args = None /\ ret = None

Paths == ({"pdf", "json", "txt"} \X FileNames) \cup ({"xlsx"} \X (1..MaxNames))

PdfFile(data, complete) == [data |-> data, complete |-> complete]

\* one invocation of an external engine (page 0: not about one page) and
\* whether it returned normally
Invoke(engine, page, ok) == [engine |-> engine, page |-> page, ok |-> ok]

Invoked(log) == {[engine |-> log[i].engine, page |-> log[i].page] : i \in 1..Len(log)}

Probe(engine, page) == [engine |-> engine, page |-> page]

\* the record kept in `last`
Call(stage, exc, log) == [stage |-> stage, exc |-> exc, log |-> log]

Observe(stage, exc, log) ==
    /\ last' = Call(stage, exc, log)
    /\ engine_runs' = [engine_runs EXCEPT ![stage] = @ + (IF log # <<>> THEN 1 ELSE 0)]
    /\ completed' = IF exc = "ok" THEN completed \cup {stage} ELSE completed
    /\ ncalls' = ncalls + 1

RunInit ==
    /\ source_url \in SourceUrls
    /\ files = [p \in Paths |-> None]
    /\ file_id = None /\ pdf_path = None /\ download_info = None
    /\ ocr_info = None /\ semantic_info = None /\ vlm_info = None
    /\ vlm_result = None /\ analysis_info = None
    /\ last = Call("init", "ok", <<>>)
    /\ engine_runs = [s \in StageNames |-> 0]
    /\ completed = {}
    /\ ncalls = 0

Init == RunInit /\ now = 0 /\ DirsIdle /\ ChatIdle /\ CallIdle

\* ------------------------------------------------ Document Fetcher (4.2)
\* what the remote end does with one GET: the connection fails, or it
\* answers with a status, a Content-Disposition name and a body whose
\* streaming completes or breaks part-way
NetError == [kind |-> "neterr", status |-> 0, name |-> 1, data |-> 1, stream_ok |-> FALSE]

\* the exception download_document ends with ("ok": returns normally)
download_exc(fid, net) ==
    IF fid = None THEN "PipelineError"
    ELSE IF net.kind = "neterr" THEN "ClientError"
    ELSE IF net.status # 200 THEN "PipelineError"
    ELSE IF ~net.stream_ok THEN "ClientError"
    ELSE "ok"

\* variant: the local file is opened before the status is looked at
download_files_before_status(fid, net, fs) ==
    IF fid # None /\ net.kind = "http"
    THEN [fs EXCEPT ![<<"pdf", net.name>>] =
                       Some(PdfFile(net.data, net.status = 200 /\ net.stream_ok))]
    ELSE fs

\* open(local_path, "wb") and the chunk loop: only reached on status 200
download_files(fid, net, fs) ==
    IF fid # None /\ net.kind = "http" /\ net.status = 200
    THEN [fs EXCEPT ![<<"pdf", net.name>>] = Some(PdfFile(net.data, net.stream_ok))]
    ELSE fs

\* variant: self.pdf_path is assigned as soon as local_path is known
download_pdf_path_early(exc, net, old) ==
    IF net.kind = "http" /\ net.status = 200 THEN Some(net.name) ELSE old

\* self.pdf_path is assigned after the session block has been left normally
download_pdf_path(exc, net, old) ==
    IF exc = "ok" THEN Some(net.name) ELSE old

download_document(net) ==
    LET fid == extract_google_drive_file_id(source_url)
        exc == IF extract_exc(source_url) # "ok" THEN extract_exc(source_url)
               ELSE download_exc(fid, net)
    IN  /\ fid = None => net = NetError     \* no request is made
        /\ files' = download_files(fid, net, files)
        /\ pdf_path' = download_pdf_path(exc, net, pdf_path)
        /\ file_id' = IF exc = "ok" THEN fid ELSE file_id
        /\ download_info' = IF exc = "ok"
                             THEN Some([filename |-> net.name,
                                        local_path |-> net.name,
                                        size_bytes |-> net.data])
                             ELSE download_info
        /\ Observe("download", exc,
                   IF fid = None THEN <<>> ELSE <<Invoke("get", 0, exc = "ok")>>)
        /\ UNCHANGED <<source_url, ocr_info, semantic_info, vlm_info,
                       vlm_result, analysis_info>>

\* ----------------------------------------------------- OCR Adapter (4.3)
OcrRaises == [ok |-> FALSE, layout |-> [p \in Pages |-> "absent"]]

SaveOutcomes == {"ok", "fail_json", "fail_txt"}

\* process_pdf_ocr: a page for every page number the engine reported, in
\* ascending order; `src` is the file the engine read. The layout tells for
\* a page number what the engine reports: no fragment at all ("absent"),
\* only fragments with blank text, or at least one fragment with text
process_pdf_ocr(pdf_file, original_filename, layout) ==
    LET keys == {p \in DOMAIN layout : layout[p] # "absent"}
        nums == sorted(keys)
    IN  [filename |-> original_filename,
         src |-> pdf_file,
         pages |-> [i \in 1..Len(nums) |->
                      [page_number |-> nums[i],
                       has_text |-> layout[nums[i]] = "text"]]]

\* variant: the output is written over the input PDF's path
save_ocr_result_over_pdf(document, save, fs) ==
    LET stem == document.filename
        with_json == [fs EXCEPT ![<<"pdf", stem>>] = Some(PdfFile(0, FALSE))]
    IN  IF save = "fail_json" THEN fs
        ELSE IF save = "fail_txt" THEN with_json
        ELSE [with_json EXCEPT ![<<"txt", stem>>] = Some([doc |-> document])]

\* save_ocr_result: the JSON is written first, then the text rendering
save_ocr_result(document, save, fs) ==
    LET stem == document.filename
        with_json == [fs EXCEPT ![<<"json", stem>>] = Some([doc |-> document])]
    IN  IF save = "fail_json" THEN fs
        ELSE IF save = "fail_txt" THEN with_json
        ELSE [with_json EXCEPT ![<<"txt", stem>>] = Some([doc |-> document])]

\* if not self.pdf_path: raise PipelineError
run_ocr_guard == IF pdf_path = None THEN "PipelineError" ELSE "ok"

run_ocr(eng, save) ==
    IF run_ocr_guard # "ok"
    THEN /\ eng = OcrRaises /\ save = "ok"     \* neither is consulted
         /\ Observe("ocr", run_ocr_guard, <<>>)
         /\ UNCHANGED <<source_url, files, fields>>
    ELSE LET name == Get(pdf_path)
             document == process_pdf_ocr(Get(files[<<"pdf", name>>]), name, eng.layout)
             exc == IF ~eng.ok THEN "EngineError"
                    ELSE IF save # "ok" THEN "OSError" ELSE "ok"
         IN  /\ ~eng.ok => save = "ok"          \* nothing is saved
             /\ files' = IF eng.ok THEN save_ocr_result(document, save, files)
                                   ELSE files
             /\ ocr_info' = IF exc = "ok"
                             THEN Some([document |-> document,
                                        json_path |-> name, txt_path |-> name])
                             ELSE ocr_info
             /\ Observe("ocr", exc, <<Invoke("ocr", 0, eng.ok)>>)
             /\ UNCHANGED <<source_url, file_id, pdf_path, download_info,
                            semantic_info, vlm_info, vlm_result, analysis_info>>

\* ----------------------------------------------- Relevance Selector (4.4)
\* what the router does when called on one page
NoAnswer == [raise |-> FALSE, score |-> None]

NoAnswers == [p \in Pages |-> NoAnswer]

\* x or default: None and 0 are falsy
Or(x, default) == IF x = None \/ Get(x) = 0 THEN default ELSE Get(x)

\* SemanticPageFilter.__init__: score_threshold or SEMANTIC_SCORE_THRESHOLD
filter_threshold(score_threshold) == Or(score_threshold, SEMANTIC_SCORE_THRESHOLD)

RECURSIVE analyze_from_no_skip(_, _, _, _, _)
\* variant: blank pages are sent to the router like any other page
analyze_from_no_skip(pages, i, answers, results, log) ==
    IF i > Len(pages) THEN [exc |-> "ok", results |-> results, log |-> log]
    ELSE LET page == pages[i]
             ans == answers[page.page_number]
             call == Invoke("score", page.page_number, ~ans.raise)
         IN  IF ans.raise
             THEN [exc |-> "EngineError", results |-> <<>>,
                   log |-> Append(log, call)]
             ELSE analyze_from_no_skip(pages, i + 1, answers,
                     Append(results,
                            [page_number |-> page.page_number,
                             similarity_score |->
                                 IF ans.score = None THEN 0 ELSE Get(ans.score)]),
                     Append(log, call))

RECURSIVE analyze_from(_, _, _, _, _)
\* the page loop of analyze_document_pages from index i on: blank pages are
\* skipped, the first exception of the router ends the loop
analyze_from(pages, i, answers, results, log) ==
    IF i > Len(pages) THEN [exc |-> "ok", results |-> results, log |-> log]
    ELSE LET page == pages[i]
             ans == answers[page.page_number]
             call == Invoke("score", page.page_number, ~ans.raise)
         IN  IF ~page.has_text
             THEN analyze_from(pages, i + 1, answers, results, log)
             ELSE IF ans.raise
             THEN [exc |-> "EngineError", results |-> <<>>,
                   log |-> Append(log, call)]
             ELSE analyze_from(pages, i + 1, answers,
                     Append(results,
                            [page_number |-> page.page_number,
                             similarity_score |->
                                 IF ans.score = None THEN 0 ELSE Get(ans.score)]),
                     Append(log, call))

analyze_document_pages(document, answers) ==
    analyze_from(document.pages, 1, answers, <<>>, <<>>)

\* seq[:n], a negative n counting from the end
Slice(seq, n) ==
    LET stop == IF n >= 0 THEN n ELSE Len(seq) + n
    IN  SubSeq(seq, 1, IF stop > Len(seq) THEN Len(seq) ELSE stop)

RECURSIVE insert_desc(_, _)
\* insert r behind every element whose score is >= r's (stable, descending)
insert_desc(seq, r) ==
    IF seq = <<>> THEN <<r>>
    ELSE IF seq[1].similarity_score >= r.similarity_score
         THEN <<seq[1]>> \o insert_desc(Tail(seq), r)
         ELSE <<r>> \o seq

RECURSIVE sort_desc(_)
\* list.sort(key=similarity_score, reverse=True)
sort_desc(seq) ==
    IF seq = <<>> THEN <<>>
    ELSE insert_desc(sort_desc(SubSeq(seq, 1, Len(seq) - 1)), seq[Len(seq)])

filter_relevant_pages(analysis_results, threshold, top_limit) ==
    LET limit == Or(top_limit, SEMANTIC_TOP_PAGES_LIMIT)
        relevant == SelectSeq(analysis_results,
                              LAMBDA r : r.similarity_score >= threshold)
        ranked == sort_desc(relevant)
        cut == Slice(ranked, limit)
    IN  [i \in 1..Len(cut) |-> cut[i].page_number]

\* variant: an exception of the router is swallowed and an empty selection
\* is returned
get_relevant_page_numbers_swallow(document, threshold, top_limit, router_ok, answers) ==
    LET scan == analyze_document_pages(document, answers)
    IN  IF ~router_ok THEN [exc |-> "ok", pages |-> <<>>, log |-> <<>>]
        ELSE IF scan.exc # "ok"
        THEN [exc |-> "ok", pages |-> <<>>, log |-> scan.log]
        ELSE [exc |-> "ok", log |-> scan.log,
              pages |-> filter_relevant_pages(scan.results, threshold, top_limit)]

\* get_relevant_page_numbers: router set-up, page loop, filter
get_relevant_page_numbers(document, threshold, top_limit, router_ok, answers) ==
    LET scan == analyze_document_pages(document, answers)
    IN  IF ~router_ok THEN [exc |-> "ValueError", pages |-> <<>>, log |-> <<>>]
        ELSE IF scan.exc # "ok"
        THEN [exc |-> scan.exc, pages |-> <<>>, log |-> scan.log]
        ELSE [exc |-> "ok", log |-> scan.log,
              pages |-> filter_relevant_pages(scan.results, threshold, top_limit)]

\* analyze_document_from_json: the document is the one in the JSON file
analyze_document_from_json(json_file, score_threshold, top_limit, router_ok, answers) ==
    IF json_file = None
    THEN [exc |-> "FileNotFoundError", pages |-> <<>>, log |-> <<>>]
    ELSE get_relevant_page_numbers(Get(json_file).doc,
             filter_threshold(score_threshold), top_limit, router_ok, answers)

\* if not self.ocr_info: raise PipelineError
run_semantic_guard == IF ocr_info = None THEN "PipelineError" ELSE "ok"

run_semantic_analysis(router_ok, answers) ==
    IF run_semantic_guard # "ok"
    THEN /\ router_ok /\ answers = NoAnswers   \* the router is not reached
         /\ Observe("semantic", run_semantic_guard, <<>>)
         /\ UNCHANGED <<source_url, files, fields>>
    ELSE LET res == analyze_document_from_json(
                        files[<<"json", Get(ocr_info).json_path>>],
                        Some(DEFECT_ANALYSIS_SCORE_THRESHOLD),
                        Some(DEFECT_ANALYSIS_TOP_PAGES), router_ok, answers)
             sorted_unique == sorted(Range(res.pages))
         IN  /\ \A p \in Pages :                \* pages the router is not asked
                    Probe("score", p) \notin Invoked(res.log) => answers[p] = NoAnswer
             /\ semantic_info' = IF res.exc = "ok"
                                  THEN Some([relevant_pages |-> sorted_unique])
                                  ELSE semantic_info
             /\ Observe("semantic", res.exc, res.log)
             /\ UNCHANGED <<source_url, files, file_id, pdf_path, download_info,
                            ocr_info, vlm_info, vlm_result, analysis_info>>

\* ----------------------------------------------------- Page Cleaner (4.5)
\* per page: both calls succeed, rasterisation raises, or the vision call raises
VisionOutcomes == [Pages -> {"ok", "convert_fail", "vlm_fail"}]

RECURSIVE clean_from_retry(_, _, _, _, _, _)
\* variant: a failed vision call is attempted a second time before giving up
clean_from_retry(pdf_file, nums, i, vout, cleaned, log) ==
    IF i > Len(nums) THEN [exc |-> "ok", cleaned |-> cleaned, log |-> log]
    ELSE LET n == nums[i]
             raster == Append(log, Invoke("raster", n, vout[n] # "convert_fail"))
             vision == Append(raster, Invoke("vision", n, vout[n] # "vlm_fail"))
         IN  IF vout[n] = "convert_fail"
             THEN [exc |-> "EngineError", cleaned |-> <<>>, log |-> raster]
             ELSE IF vout[n] = "vlm_fail"
             THEN [exc |-> "EngineError", cleaned |-> <<>>,
                   log |-> Append(vision, Invoke("vision", n, FALSE))]
             ELSE clean_from_retry(pdf_file, nums, i + 1, vout,
                     Append(cleaned, [page_number |-> n,
                                      cleaned_text |-> pdf_file.data]),
                     vision)

RECURSIVE clean_from(_, _, _, _, _, _)
\* the page loop of process_pages from index i on
clean_from(pdf_file, nums, i, vout, cleaned, log) ==
    IF i > Len(nums) THEN [exc |-> "ok", cleaned |-> cleaned, log |-> log]
    ELSE LET n == nums[i]
             raster == Append(log, Invoke("raster", n, vout[n] # "convert_fail"))
             vision == Append(raster, Invoke("vision", n, vout[n] # "vlm_fail"))
         IN  IF vout[n] = "convert_fail"
             THEN [exc |-> "EngineError", cleaned |-> <<>>, log |-> raster]
             ELSE IF vout[n] = "vlm_fail"
             THEN [exc |-> "EngineError", cleaned |-> <<>>, log |-> vision]
             ELSE clean_from(pdf_file, nums, i + 1, vout,
                     Append(cleaned, [page_number |-> n,
                                      cleaned_text |-> pdf_file.data]),
                     vision)

\* variant: the pages are processed in the order of the input list
process_pages_input_order(pdf_name, pdf_file, page_numbers, vout) ==
    IF page_numbers = <<>>
    THEN [exc |-> "ValueError", log |-> <<>>, result |-> None]
    ELSE LET loop == clean_from(pdf_file, page_numbers, 1, vout, <<>>, <<>>)
         IN  [exc |-> loop.exc, log |-> loop.log,
              result |-> IF loop.exc = "ok"
                         THEN Some([source_pdf |-> pdf_name,
                                    source_file |-> pdf_file,
                                    processed_pages |-> Len(loop.cleaned),
                                    cleaned_pages |-> loop.cleaned])
                         ELSE None]

\* variant: processed_pages counts the requested page numbers
process_pages_count_requested(pdf_name, pdf_file, page_numbers, vout) ==
    IF page_numbers = <<>>
    THEN [exc |-> "ValueError", log |-> <<>>, result |-> None]
    ELSE LET loop == clean_from(pdf_file, sorted(Range(page_numbers)), 1, vout,
                                <<>>, <<>>)
         IN  [exc |-> loop.exc, log |-> loop.log,
              result |-> IF loop.exc = "ok"
                         THEN Some([source_pdf |-> pdf_name,
                                    source_file |-> pdf_file,
                                    processed_pages |-> Len(page_numbers),
                                    cleaned_pages |-> loop.cleaned])
                         ELSE None]

\* variant: an empty page list gives an empty result
process_pages_accept_empty(pdf_name, pdf_file, page_numbers, vout) ==
    LET loop == clean_from(pdf_file, sorted(Range(page_numbers)), 1, vout,
                           <<>>, <<>>)
    IN  [exc |-> loop.exc, log |-> loop.log,
         result |-> IF loop.exc = "ok"
                    THEN Some([source_pdf |-> pdf_name,
                               source_file |-> pdf_file,
                               processed_pages |-> Len(loop.cleaned),
                               cleaned_pages |-> loop.cleaned])
                    ELSE None]

\* VLMPageCleaner.process_pages
process_pages(pdf_name, pdf_file, page_numbers, vout) ==
    IF page_numbers = <<>>
    THEN [exc |-> "ValueError", log |-> <<>>, result |-> None]
    ELSE LET loop == clean_from(pdf_file, sorted(Range(page_numbers)), 1, vout,
                                <<>>, <<>>)
         IN  [exc |-> loop.exc, log |-> loop.log,
              result |-> IF loop.exc = "ok"
                         THEN Some([source_pdf |-> pdf_name,
                                    source_file |-> pdf_file,
                                    processed_pages |-> Len(loop.cleaned),
                                    cleaned_pages |-> loop.cleaned])
                         ELSE None]

\* variant: the first guard reads relevant_pages without the None test
run_vlm_guard_no_none_test ==
    IF semantic_info = None THEN "AttributeError"
    ELSE IF Get(semantic_info).relevant_pages = <<>> THEN "PipelineError"
    ELSE IF pdf_path = None THEN "PipelineError"
    ELSE "ok"

\* the two guards at the head of run_vlm_cleaning
run_vlm_guard ==
    IF semantic_info = None THEN "PipelineError"
    ELSE IF Get(semantic_info).relevant_pages = <<>> THEN "PipelineError"
    ELSE IF pdf_path = None THEN "PipelineError"
    ELSE "ok"

run_vlm_cleaning(vout) ==
    IF run_vlm_guard # "ok"
    THEN /\ vout = ([p \in Pages |-> "ok"])                   \* no page is processed
         /\ Observe("vlm", run_vlm_guard, <<>>)
         /\ UNCHANGED <<source_url, files, fields>>
    ELSE LET name == Get(pdf_path)
             res == process_pages(name, Get(files[<<"pdf", name>>]),
                                  Get(semantic_info).relevant_pages, vout)
         IN  /\ \A p \in Pages :                \* pages that are not processed
                    Probe("raster", p) \notin Invoked(res.log) => vout[p] = "ok"
             /\ vlm_info' = IF res.exc = "ok"
                             THEN Some([processed_pages |-> Get(res.result).processed_pages])
                             ELSE vlm_info
             /\ vlm_result' = IF res.exc = "ok" THEN res.result ELSE vlm_result
             /\ Observe("vlm", res.exc, res.log)
             /\ UNCHANGED <<source_url, files, file_id, pdf_path, download_info,
                            ocr_info, semantic_info, analysis_info>>

\* ------------------------------------------------- Defect Extractor (4.6)
\* the extraction call: client set-up fails, the LLM call raises, or the LLM
\* returns `defects` records
LlmRaises == [kind |-> "raise", defects |-> 0]

LlmOutcomes ==
    {[kind |-> "no_client", defects |-> 0], LlmRaises}
    \cup [kind : {"ok"}, defects : 0..1]

\* DefectAnalyzer.process_combined_pages
process_combined_pages(page_texts, llm) ==
    IF llm.kind = "no_client"
    THEN [exc |-> "ValueError", log |-> <<>>, defects |-> 0]
    ELSE IF llm.kind = "raise"
    THEN [exc |-> "EngineError", log |-> <<Invoke("llm", 0, FALSE)>>, defects |-> 0]
    ELSE [exc |-> "ok", log |-> <<Invoke("llm", 0, TRUE)>>, defects |-> llm.defects]

\* DefectAnalyzer.create_excel_report: one row per record
create_excel_report(defects, page_texts, output_path, fs) ==
    [fs EXCEPT ![<<"xlsx", output_path>>] =
                   Some([rows |-> defects, texts |-> page_texts])]

\* the head of run_analysis_and_report: hasattr(self, "_vlm_result") is true
\* of every run, so the first guard never fires and a run without a
\* cleaning result fails on None.cleaned_pages
run_analysis_guard ==
    IF vlm_result = None THEN "AttributeError"
    ELSE IF Get(vlm_result).cleaned_pages = <<>> THEN "PipelineError"
    ELSE "ok"

run_analysis_and_report(llm, excel_name, excel_ok) ==
    IF run_analysis_guard # "ok"
    THEN /\ llm = LlmRaises /\ excel_name = 1 /\ excel_ok   \* not consulted
         /\ Observe("analysis", run_analysis_guard, <<>>)
         /\ UNCHANGED <<source_url, files, fields>>
    ELSE LET cleaned == Get(vlm_result).cleaned_pages
             page_texts == [i \in 1..Len(cleaned) |-> cleaned[i].cleaned_text]
             res == process_combined_pages(page_texts, llm)
             exc == IF res.exc # "ok" THEN res.exc
                    ELSE IF ~excel_ok THEN "OSError" ELSE "ok"
         IN  /\ res.exc # "ok" => excel_name = 1 /\ excel_ok   \* no report
             /\ files' = IF exc = "ok"
                          THEN create_excel_report(res.defects, page_texts,
                                                   excel_name, files)
                          ELSE files
             /\ analysis_info' = IF exc = "ok"
                                  THEN Some([excel_path |-> excel_name])
                                  ELSE analysis_info
             /\ Observe("analysis", exc, res.log)
             /\ UNCHANGED <<source_url, file_id, pdf_path, download_info,
                            ocr_info, semantic_info, vlm_info, vlm_result>>

\* --------------------------------------------------------- specification
\* the caller may call the five stage methods in any order, any number of
\* times (at most MaxCalls calls are explored). The router answers a page
\* with a similarity_score (None below the route's own threshold) or raises
Next ==
    /\ ncalls < MaxCalls
    /\ UNCHANGED <<now, dirvars, chatvars, callvars>>
    /\ \/ \E net \in {NetError,
                      [kind |-> "http", status |-> 404, name |-> 1, data |-> 1,
                       stream_ok |-> FALSE]}
                     \cup [kind : {"http"}, status : {200}, name : FileNames,
                           data : 1..MaxContent, stream_ok : BOOLEAN] :
              download_document(net)
       \/ \E eng \in {OcrRaises}
                     \cup [ok : {TRUE},
                           layout : [Pages -> {"absent", "blank", "text"}]],
              save \in SaveOutcomes : run_ocr(eng, save)
       \/ \E router_ok \in BOOLEAN,
              answers \in [Pages -> {[raise |-> TRUE, score |-> None]}
                                    \cup [raise : {FALSE},
                                          score : {None, Some(2), Some(7)}]] :
              run_semantic_analysis(router_ok, answers)
       \/ \E vout \in VisionOutcomes : run_vlm_cleaning(vout)
       \/ \E llm \in LlmOutcomes, excel_name \in 1..MaxNames, excel_ok \in BOOLEAN :
              run_analysis_and_report(llm, excel_name, excel_ok)

Spec == Init /\ [][Next]_vars

\* ------------------------------------------- working directories of runs
\* the clock advances by one tick
Tick == now < MaxClock /\ now' = now + 1

\* ensure_pipeline_directory: result/<timestamp>, mkdir(exist_ok=True)
ensure_pipeline_directory(t) == strftime(t)

\* DefectAnalysisPipeline.__init__ of run r
Construct(r) ==
    /\ run_dir[r] = None
    /\ run_dir' = [run_dir EXCEPT ![r] = Some(ensure_pipeline_directory(now))]
    /\ UNCHANGED <<now, run_writes>>

\* download_document of run r opens pipeline_dir / local_filename for writing
WriteDownload(r, name) ==
    /\ run_dir[r] # None
    /\ run_writes' = [run_writes EXCEPT ![r] = @ \cup {<<Get(run_dir[r]), "pdf", name>>}]
    /\ UNCHANGED <<now, run_dir>>

InitDirs ==
    /\ RunInit /\ source_url = CHOOSE u \in SourceUrls : TRUE
    /\ now = 0 /\ DirsIdle /\ ChatIdle /\ CallIdle

NextDirs ==
    /\ UNCHANGED <<runvars, chatvars, callvars>>
    /\ \/ Tick /\ UNCHANGED dirvars
       \/ \E r \in Runs : Construct(r)
       \/ \E r \in Runs, name \in FileNames : WriteDownload(r, name)

SpecDirs == InitDirs /\ [][NextDirs]_vars

\* ------------------------------------ chat flow (handlers/documents.py)
\* Each action is the code of handle_full_defect_analysis from the return
\* of one awaited call to the start of the next one; its parameters are
\* the outcome of the awaited call and of the synchronous calls that follow.
At(f, pc) == flow[f].pc = pc

SetFlow(f, rec) == flow' = [flow EXCEPT ![f] = rec]

\* an exception inside the try block: the except clause edits the progress
\* message into an error message
Except(rec) == [rec EXCEPT !.pc = "await_edit_error"]

\* the finally clause: unlink temp_path if it is set and the file exists
Finally(rec) ==
    tmp_files' = IF rec.temp_path = None THEN tmp_files
                 ELSE tmp_files \ {Get(rec.temp_path)}

\* the input checks at the head of the handler
passes_validation(m) ==
    /\ m.kind \in {"file", "url"}
    /\ m.kind = "file" => m.pdf

\* lines 249-267: validation, then the progress message is sent
ChatBegin(f) ==
    /\ At(f, "new")
    /\ SetFlow(f, [flow[f] EXCEPT !.pc = IF passes_validation(msg[f])
                                         THEN "await_answer" ELSE "await_reject"])
    /\ UNCHANGED <<now, msg, tmp_files, result_files, outbox>>

\* lines 253-262: the rejection was sent, the handler returns
ChatRejected(f, chat_ok) ==
    /\ At(f, "await_reject")
    /\ SetFlow(f, [flow[f] EXCEPT !.pc = IF chat_ok THEN "done" ELSE "raised"])
    /\ UNCHANGED <<now, msg, tmp_files, result_files, outbox>>

\* lines 267-273: temp_path = None, the try block starts with edit_text
ChatAnswered(f, chat_ok) ==
    /\ At(f, "await_answer")
    /\ SetFlow(f, [flow[f] EXCEPT !.pc = IF chat_ok THEN "await_edit1" ELSE "raised"])
    /\ UNCHANGED <<now, msg, tmp_files, result_files, outbox>>

\* lines 273-288: bot.get_file for an upload, session.get for a link
ChatEdit1(f, chat_ok) ==
    /\ At(f, "await_edit1")
    /\ SetFlow(f, IF ~chat_ok THEN Except(flow[f])
                  ELSE [flow[f] EXCEPT !.pc = IF msg[f].kind = "file"
                                               THEN "await_get_file"
                                               ELSE "await_http"])
    /\ UNCHANGED <<now, msg, tmp_files, result_files, outbox>>

\* lines 277-281: the temporary file is created and temp_path assigned
\* before bot.download_file is awaited
ChatGotFile(f, chat_ok) ==
    /\ At(f, "await_get_file")
    /\ IF chat_ok
       THEN /\ tmp_files' = tmp_files \cup {f}
            /\ SetFlow(f, [flow[f] EXCEPT !.pc = "await_download_file",
                                          !.temp_path = Some(f)])
       ELSE /\ SetFlow(f, Except(flow[f]))
            /\ UNCHANGED tmp_files
    /\ UNCHANGED <<now, msg, result_files, outbox>>

\* lines 281-293: the upload is stored, process_pdf_ocr is started
ChatDownloadedFile(f, chat_ok) ==
    /\ At(f, "await_download_file")
    /\ SetFlow(f, IF ~chat_ok THEN Except(flow[f])
                  ELSE [flow[f] EXCEPT
                          !.pc = "await_ocr",
                          !.original_filename =
                              Some(Stem("upload", msg[f].file_name))])
    /\ UNCHANGED <<now, msg, tmp_files, result_files, outbox>>

\* download_file_from_url, lines 115-124: the response arrives; on status
\* 200 the temporary file is created and the body is streamed into it
ChatHttp(f, status) ==
    /\ At(f, "await_http")
    /\ IF status = 200
       THEN /\ tmp_files' = tmp_files \cup {f}
            /\ SetFlow(f, [flow[f] EXCEPT !.pc = "await_stream"])
       ELSE /\ SetFlow(f, Except(flow[f]))
            /\ UNCHANGED tmp_files
    /\ UNCHANGED <<now, msg, result_files, outbox>>

\* download_file_from_url, lines 123-131, then lines 288-293: temp_path is
\* assigned only when the function returns
ChatStreamed(f, stream_ok) ==
    /\ At(f, "await_stream")
    /\ SetFlow(f, IF ~stream_ok THEN Except(flow[f])
                  ELSE [flow[f] EXCEPT
                          !.pc = "await_ocr",
                          !.temp_path = Some(f),
                          !.original_filename = Some(Stem("url", strftime(now)))])
    /\ UNCHANGED <<now, msg, tmp_files, result_files, outbox>>

\* lines 293-301: the OCR thread returns, the document is built and saved
\* to result/ocr_result_<stem>.json, edit_text is started
ChatOcr(f, ocr_ok, save) ==
    /\ At(f, "await_ocr")
    /\ ~ocr_ok => save = "ok"
    /\ LET stem == Get(flow[f].original_filename)
           \* every page of a chat document carries text
           document == process_pdf_ocr(PdfFile(f, TRUE), stem,
                                       [p \in Pages |-> "text"])
       IN  /\ result_files' = IF ocr_ok
                               THEN save_ocr_result(document, save, result_files)
                               ELSE result_files
           /\ SetFlow(f, IF ocr_ok /\ save = "ok"
                         THEN [flow[f] EXCEPT !.pc = "await_edit2",
                                              !.document_data = Some(document),
                                              !.json_file = Some(<<"json", stem>>)]
                         ELSE Except(flow[f]))
    /\ UNCHANGED <<now, msg, tmp_files, outbox>>

\* what the router may do in a chat flow: no page matches, every page
\* matches, or the first call raises
ChatAnswers ==
    {NoAnswers, [p \in Pages |-> [raise |-> FALSE, score |-> Some(7)]],
     [p \in Pages |-> IF p = 1 THEN [raise |-> TRUE, score |-> None] ELSE NoAnswer]}

\* lines 301-334: the JSON at json_file is loaded and analysed; an empty
\* selection leads to the warning, any other to the VLM stage
ChatEdit2(f, chat_ok, router_ok, answers) ==
    /\ At(f, "await_edit2")
    /\ (~chat_ok \/ ~router_ok) => answers = NoAnswers
    /\ ~chat_ok => router_ok
    /\ LET json == result_files[Get(flow[f].json_file)]
           res == analyze_document_from_json(json,
                      Some(DEFECT_ANALYSIS_SCORE_THRESHOLD),
                      Some(DEFECT_ANALYSIS_TOP_PAGES), router_ok, answers)
           sorted_relevant_pages == sorted(Range(res.pages))
       IN  SetFlow(f, IF ~chat_ok \/ res.exc # "ok" THEN Except(flow[f])
                      ELSE [flow[f] EXCEPT
                              !.read_doc = Some(Get(json).doc),
                              !.relevant_pages = sorted_relevant_pages,
                              !.pc = IF sorted_relevant_pages = <<>>
                                     THEN "await_edit_warn" ELSE "await_edit3"])
    /\ UNCHANGED <<now, msg, tmp_files, result_files, outbox>>

\* a terminal outcome shown to the user
Outcome(kind, payload) == [kind |-> kind, payload |-> payload]

\* lines 313-323 and the finally clause: the warning is shown, return
ChatWarned(f, chat_ok) ==
    /\ At(f, "await_edit_warn")
    /\ IF chat_ok
       THEN /\ outbox' = [outbox EXCEPT ![f] = Append(@, Outcome("warning", None))]
            /\ SetFlow(f, [flow[f] EXCEPT !.pc = "done"])
            /\ Finally(flow[f])
       ELSE /\ SetFlow(f, Except(flow[f]))
            /\ UNCHANGED <<outbox, tmp_files>>
    /\ UNCHANGED <<now, msg, result_files>>

\* the position at which a flow is inside a synchronous engine call in the
\* handler's own frame, that is on the thread of the event loop (at
\* "await_ocr" the engine runs in a worker thread: asyncio.to_thread in
\* process_pdf_ocr)
OnLoop == {"in_process_pages"}

\* the event loop runs one coroutine at a time: a flow is resumed only
\* when no other flow occupies the loop's thread
Runnable == {f \in Flows : \A g \in Flows \ {f} : flow[g].pc \notin OnLoop}

\* lines 334-341: the progress message is edited, then process_pages is
\* called directly, without await or to_thread
ChatEdit3(f, chat_ok) ==
    /\ At(f, "await_edit3")
    /\ SetFlow(f, IF ~chat_ok THEN Except(flow[f])
                  ELSE [flow[f] EXCEPT !.pc = "in_process_pages"])
    /\ UNCHANGED <<now, msg, tmp_files, result_files, outbox>>

\* lines 341-346: process_pages returns or raises; it worked on the flow's
\* own temporary file
ChatCleaned(f, vout) ==
    /\ At(f, "in_process_pages")
    /\ LET res == process_pages(Get(flow[f].temp_path), PdfFile(f, TRUE),
                                flow[f].relevant_pages, vout)
       IN  SetFlow(f, IF res.exc # "ok" THEN Except(flow[f])
                      ELSE [flow[f] EXCEPT !.pc = "await_edit4",
                                           !.vlm_result = res.result])
    /\ UNCHANGED <<now, msg, tmp_files, result_files, outbox>>

\* analyze_vlm_cleaned_pages_with_excel: no page text and no defect record
\* are ValueErrors; the report goes to result/defect_analysis_<ts>.xlsx
analyze_vlm_cleaned_pages_with_excel(vlm_res, llm, excel_ok, t, fs) ==
    LET cleaned == vlm_res.cleaned_pages
        page_texts == [i \in 1..Len(cleaned) |-> cleaned[i].cleaned_text]
        res == process_combined_pages(page_texts, llm)
        output_path == Stem("report", strftime(t))
        exc == IF page_texts = <<>> THEN "ValueError"
               ELSE IF res.exc # "ok" THEN res.exc
               ELSE IF res.defects = 0 THEN "ValueError"
               ELSE IF ~excel_ok THEN "OSError" ELSE "ok"
    IN  [exc |-> exc,
         log |-> IF page_texts = <<>> THEN <<>> ELSE res.log,
         excel_path |-> <<"xlsx", output_path>>,
         files |-> IF exc = "ok"
                   THEN create_excel_report(res.defects, page_texts, output_path, fs)
                   ELSE fs]

\* lines 346-356: extraction and report, then edit_text
ChatEdit4(f, chat_ok, llm, excel_ok) ==
    /\ At(f, "await_edit4")
    /\ ~chat_ok => llm = LlmRaises
    /\ llm.kind # "ok" => excel_ok
    /\ LET res == analyze_vlm_cleaned_pages_with_excel(
                      Get(flow[f].vlm_result), llm, excel_ok, now, result_files)
       IN  IF chat_ok /\ res.exc = "ok"
           THEN /\ result_files' = res.files
                /\ SetFlow(f, [flow[f] EXCEPT !.pc = "await_edit5",
                                              !.excel_path = Some(res.excel_path)])
           ELSE /\ SetFlow(f, Except(flow[f]))
                /\ UNCHANGED result_files
    /\ UNCHANGED <<now, msg, tmp_files, outbox>>

\* lines 356-366: the file at excel_path is read and sent
ChatEdit5(f, chat_ok) ==
    /\ At(f, "await_edit5")
    /\ SetFlow(f, IF ~chat_ok THEN Except(flow[f])
                  ELSE [flow[f] EXCEPT
                          !.pc = "await_send",
                          !.excel_document = result_files[Get(flow[f].excel_path)]])
    /\ UNCHANGED <<now, msg, tmp_files, result_files, outbox>>

\* lines 365-379: the spreadsheet reached the user, the progress message
\* is deleted
ChatSent(f, chat_ok) ==
    /\ At(f, "await_send")
    /\ IF chat_ok
       THEN /\ outbox' = [outbox EXCEPT
                            ![f] = Append(@, Outcome("spreadsheet",
                                                     flow[f].excel_document))]
            /\ SetFlow(f, [flow[f] EXCEPT !.pc = "await_delete"])
       ELSE /\ SetFlow(f, Except(flow[f]))
            /\ UNCHANGED outbox
    /\ UNCHANGED <<now, msg, tmp_files, result_files>>

\* lines 379-381 and the finally clause
ChatDeleted(f, chat_ok) ==
    /\ At(f, "await_delete")
    /\ IF chat_ok
       THEN /\ SetFlow(f, [flow[f] EXCEPT !.pc = "done"])
            /\ Finally(flow[f])
       ELSE /\ SetFlow(f, Except(flow[f]))
            /\ UNCHANGED tmp_files
    /\ UNCHANGED <<now, msg, result_files, outbox>>

\* lines 383-397: the error message is shown (or the edit itself raises),
\* then the finally clause runs
ChatErrorShown(f, chat_ok) ==
    /\ At(f, "await_edit_error")
    /\ outbox' = IF chat_ok
                  THEN [outbox EXCEPT ![f] = Append(@, Outcome("error", None))]
                  ELSE outbox
    /\ SetFlow(f, [flow[f] EXCEPT !.pc = IF chat_ok THEN "done" ELSE "raised"])
    /\ Finally(flow[f])
    /\ UNCHANGED <<now, msg, result_files>>

\* a message is an uploaded document (PDF or not), a text with a link, or
\* any other text
InitChat ==
    /\ RunInit /\ source_url = CHOOSE u \in SourceUrls : TRUE
    /\ now = 0 /\ DirsIdle /\ CallIdle
    /\ msg \in [Flows -> [kind : {"file"}, file_name : FileNames, pdf : BOOLEAN]
                          \cup {[kind |-> "url", file_name |-> 1, pdf |-> FALSE],
                                [kind |-> "text", file_name |-> 1, pdf |-> FALSE]}]
    /\ flow = [f \in Flows |-> NewFlow]
    /\ tmp_files = {}
    /\ result_files = [p \in ChatPaths |-> None]
    /\ outbox = [f \in Flows |-> <<>>]

NextChat ==
    /\ UNCHANGED <<runvars, dirvars, callvars>>
    /\ \/ Tick /\ UNCHANGED chatvars
       \/ \E f \in Runnable : ChatBegin(f)
       \/ \E f \in Runnable, chat_ok \in BOOLEAN : ChatRejected(f, chat_ok)
       \/ \E f \in Runnable, chat_ok \in BOOLEAN : ChatAnswered(f, chat_ok)
       \/ \E f \in Runnable, chat_ok \in BOOLEAN : ChatEdit1(f, chat_ok)
       \/ \E f \in Runnable, chat_ok \in BOOLEAN : ChatGotFile(f, chat_ok)
       \/ \E f \in Runnable, chat_ok \in BOOLEAN : ChatDownloadedFile(f, chat_ok)
       \/ \E f \in Runnable, status \in {200, 404} : ChatHttp(f, status)
       \/ \E f \in Runnable, stream_ok \in BOOLEAN : ChatStreamed(f, stream_ok)
       \/ \E f \in Runnable, ocr_ok \in BOOLEAN, save \in SaveOutcomes :
              ChatOcr(f, ocr_ok, save)
       \/ \E f \in Runnable, chat_ok \in BOOLEAN, router_ok \in BOOLEAN,
              answers \in ChatAnswers : ChatEdit2(f, chat_ok, router_ok, answers)
       \/ \E f \in Runnable, chat_ok \in BOOLEAN : ChatWarned(f, chat_ok)
       \/ \E f \in Runnable, chat_ok \in BOOLEAN : ChatEdit3(f, chat_ok)
       \/ \E f \in Runnable, vout \in VisionOutcomes : ChatCleaned(f, vout)
       \/ \E f \in Runnable, chat_ok \in BOOLEAN, llm \in LlmOutcomes,
              excel_ok \in BOOLEAN : ChatEdit4(f, chat_ok, llm, excel_ok)
       \/ \E f \in Runnable, chat_ok \in BOOLEAN : ChatEdit5(f, chat_ok)
       \/ \E f \in Runnable, chat_ok \in BOOLEAN : ChatSent(f, chat_ok)
       \/ \E f \in Runnable, chat_ok \in BOOLEAN : ChatDeleted(f, chat_ok)
       \/ \E f \in Runnable, chat_ok \in BOOLEAN : ChatErrorShown(f, chat_ok)

SpecChat == InitChat /\ [][NextChat]_vars

\* ------------------------------- one call of the relevance step, any input
\* The relevance step as run_semantic_analysis and the chat handler perform
\* it (analyze_document_from_json, then sorted(set(...))), for every small
\* document, router behaviour, threshold and limit.
SelPages == 1..(MaxPage + 1)

SelectArgs ==
    {a \in [layout : [SelPages -> {"absent", "blank", "text"}],
            answers : [SelPages -> {[raise |-> TRUE, score |-> None]}
                                   \cup [raise : {FALSE},
                                         score : {None, Some(2), Some(6), Some(7)}]],
            router_ok : BOOLEAN, score_threshold : {None, Some(0), Some(5), Some(7)},
            top_limit : {None, Some(0), Some(1), Some(2)}] :
        \* the router is asked only about pages with text, and only if it
        \* has been set up
        \A p \in SelPages :
            (a.layout[p] # "text" \/ ~a.router_ok) => a.answers[p] = NoAnswer}

SelectDocument(a) == process_pdf_ocr(PdfFile(1, TRUE), 1, a.layout)

SelectCall ==
    /\ ret = None
    /\ LET res == analyze_document_from_json(
                      Some([doc |-> SelectDocument(args)]), args.score_threshold,
                      args.top_limit, args.router_ok, args.answers)
       IN  ret' = Some([exc |-> res.exc, log |-> res.log,
                        relevant_pages |-> res.pages,
                        sorted_unique |-> sorted(Range(res.pages))])
    /\ UNCHANGED args

InitSelect ==
    /\ RunInit /\ source_url = CHOOSE u \in SourceUrls : TRUE
    /\ now = 0 /\ DirsIdle /\ ChatIdle
    /\ args \in SelectArgs /\ ret = None

NextSelect == SelectCall /\ UNCHANGED <<runvars, now, dirvars, chatvars>>

SpecSelect == InitSelect /\ [][NextSelect]_vars

\* ------------------------------------ one call of process_pages, any input
\* sequences over S of length at most n
SeqsUpTo(S, n) == UNION {[1..k -> S] : k \in 0..n}

\* process_pages takes any list; the list run_vlm_cleaning reads is the
\* one run_semantic_analysis recorded, sorted(set(..)) of pages of the PDF
CleanArgs ==
    {a \in [entry : {"process_pages", "run_vlm_cleaning"},
            page_numbers : SeqsUpTo(SelPages, MaxLen),
            vout : [SelPages -> {"ok", "convert_fail", "vlm_fail"}]] :
        a.entry = "run_vlm_cleaning"
        => /\ a.page_numbers = sorted(Range(a.page_numbers))
           /\ Range(a.page_numbers) \subseteq Pages
           /\ \A p \in SelPages : p \notin Range(a.page_numbers) => a.vout[p] = "ok"}

\* a run whose first three stages have completed with the given selection
AfterSelection(relevant_pages) ==
    LET document == process_pdf_ocr(PdfFile(1, TRUE), 1, [p \in Pages |-> "text"])
    IN  /\ source_url = CHOOSE u \in SourceUrls :
                            extract_google_drive_file_id(u) # None
        /\ file_id = extract_google_drive_file_id(source_url)
        /\ files = save_ocr_result(document, "ok",
                       [[p \in Paths |-> None] EXCEPT
                           ![<<"pdf", 1>>] = Some(PdfFile(1, TRUE))])
        /\ pdf_path = Some(1)
        /\ download_info = Some([filename |-> 1, local_path |-> 1, size_bytes |-> 1])
        /\ ocr_info = Some([document |-> document, json_path |-> 1, txt_path |-> 1])
        /\ semantic_info = Some([relevant_pages |-> relevant_pages])
        /\ vlm_info = None /\ vlm_result = None /\ analysis_info = None
        /\ last = Call("semantic", "ok", <<>>)
        /\ engine_runs = [s \in StageNames |->
                             IF s \in {"vlm", "analysis"} THEN 0 ELSE 1]
        /\ completed = {"download", "ocr", "semantic"}
        /\ ncalls = 3

\* await pipeline.run_vlm_cleaning()
CallRunVlmCleaning ==
    /\ ret = None /\ args.entry = "run_vlm_cleaning"
    /\ run_vlm_cleaning([p \in Pages |-> args.vout[p]])
    /\ ret' = Some([exc |-> last'.exc, log |-> last'.log, result |-> vlm_result'])
    /\ UNCHANGED args

\* run_vlm_cleaning from the call of process_pages on, on a page list of
\* any order: the fields are assigned after process_pages has returned
CleanCall ==
    /\ ret = None /\ args.entry = "process_pages"
    /\ LET res == process_pages(1, PdfFile(1, TRUE), args.page_numbers, args.vout)
       IN  /\ ret' = Some(res)
           /\ vlm_info' = IF res.exc = "ok"
                           THEN Some([processed_pages |-> Get(res.result).processed_pages])
                           ELSE vlm_info
           /\ vlm_result' = IF res.exc = "ok" THEN res.result ELSE vlm_result
    /\ UNCHANGED <<args, source_url, files, file_id, pdf_path, download_info,
                   ocr_info, semantic_info, analysis_info, last, engine_runs,
                   completed, ncalls>>

InitClean ==
    /\ args \in CleanArgs /\ ret = None
    /\ IF args.entry = "run_vlm_cleaning"
       THEN AfterSelection(args.page_numbers)
       ELSE RunInit /\ source_url = CHOOSE u \in SourceUrls : TRUE
    /\ now = 0 /\ DirsIdle /\ ChatIdle

NextClean ==
    /\ UNCHANGED <<now, dirvars, chatvars>>
    /\ \/ CleanCall
       \/ CallRunVlmCleaning

SpecClean == InitClean /\ [][NextClean]_vars

\* ------------------------- one call of an entry point of the Defect Extractor
\* a VLMCleaningResult with the given cleaned texts for pages 1, 2, ..
CleaningResult(page_texts) ==
    [source_pdf |-> 1, source_file |-> PdfFile(1, TRUE),
     processed_pages |-> Len(page_texts),
     cleaned_pages |-> [i \in 1..Len(page_texts) |->
                          [page_number |-> i, cleaned_text |-> page_texts[i]]]]

\* process_pages returns no VLMCleaningResult without cleaned pages, so a
\* run is never in a state where run_analysis_and_report finds zero texts
ExtractArgs ==
    {a \in [entry : {"process_combined_pages",
                     "analyze_vlm_cleaned_pages_with_excel",
                     "run_analysis_and_report"},
            page_texts : SeqsUpTo(1..(MaxContent + 1), MaxLen), llm : LlmOutcomes,
            excel_ok : BOOLEAN] :
        /\ a.entry = "run_analysis_and_report" => a.page_texts # <<>>
        /\ (a.llm.kind # "ok" \/ a.entry = "process_combined_pages") => a.excel_ok}

\* a run whose first four stages have completed with the given cleaned texts
AfterCleaning(page_texts) ==
    LET n == Len(page_texts)
        document == process_pdf_ocr(PdfFile(1, TRUE), 1, [p \in 1..n |-> "text"])
        cleaning == process_pages(1, PdfFile(1, TRUE), [i \in 1..n |-> i],
                                  [p \in 1..n |-> "ok"])
    IN  /\ source_url = CHOOSE u \in SourceUrls :
                            extract_google_drive_file_id(u) # None
        /\ file_id = extract_google_drive_file_id(source_url)
        /\ files = save_ocr_result(document, "ok",
                       [[p \in Paths |-> None] EXCEPT
                           ![<<"pdf", 1>>] = Some(PdfFile(1, TRUE))])
        /\ pdf_path = Some(1)
        /\ download_info = Some([filename |-> 1, local_path |-> 1, size_bytes |-> 1])
        /\ ocr_info = Some([document |-> document, json_path |-> 1, txt_path |-> 1])
        /\ semantic_info = Some([relevant_pages |-> [i \in 1..n |-> i]])
        /\ vlm_info = Some([processed_pages |-> n])
        /\ vlm_result = Some(CleaningResult(page_texts))
        /\ analysis_info = None
        /\ last = Call("vlm", "ok", cleaning.log)
        /\ engine_runs = [s \in StageNames |-> IF s = "analysis" THEN 0 ELSE 1]
        /\ completed = StageNames \ {"analysis"}
        /\ ncalls = 4

\* await analyzer.process_combined_pages(page_texts)
CallProcessCombinedPages ==
    /\ ret = None /\ args.entry = "process_combined_pages"
    /\ LET res == process_combined_pages(args.page_texts, args.llm)
       IN  ret' = Some([exc |-> res.exc, log |-> res.log])
    /\ UNCHANGED <<args, runvars, result_files>>

\* await analyze_vlm_cleaned_pages_with_excel(vlm_result)
CallAnalyzeVlmCleanedPages ==
    /\ ret = None /\ args.entry = "analyze_vlm_cleaned_pages_with_excel"
    /\ LET res == analyze_vlm_cleaned_pages_with_excel(
                      CleaningResult(args.page_texts), args.llm, args.excel_ok,
                      now, result_files)
       IN  /\ ret' = Some([exc |-> res.exc, log |-> res.log])
           /\ result_files' = res.files
    /\ UNCHANGED <<args, runvars>>

\* await pipeline.run_analysis_and_report()
CallRunAnalysisAndReport ==
    /\ ret = None /\ args.entry = "run_analysis_and_report"
    /\ run_analysis_and_report(args.llm, 1, args.excel_ok)
    /\ ret' = Some([exc |-> last'.exc, log |-> last'.log])
    /\ UNCHANGED <<args, result_files>>

InitExtract ==
    /\ args \in ExtractArgs /\ ret = None
    /\ IF args.entry = "run_analysis_and_report"
       THEN AfterCleaning(args.page_texts)
       ELSE RunInit /\ source_url = CHOOSE u \in SourceUrls : TRUE
    /\ now = 0 /\ DirsIdle /\ ChatIdle

NextExtract ==
    /\ UNCHANGED <<now, dirvars, msg, flow, tmp_files, outbox>>
    /\ \/ CallProcessCombinedPages
       \/ CallAnalyzeVlmCleanedPages
       \/ CallRunAnalysisAndReport

SpecExtract == InitExtract /\ [][NextExtract]_vars

\* ------------------------------- one call of create_excel_report, any input
\* the display name of a key of the defect directory (DefectKey)
get_defect_full_name(key) ==
    IF key = "ventilation_system_malfunction"
    THEN "full name of ventilation_system_malfunction"
    ELSE "full name of wallpaper_surface_defects"

\* the sheet df.to_excel(index=False) writes: the captions, then one row
\* per record with the attributes source_text, room, location, defect,
\* work_type
report_sheet(analysis_results) ==
    [header |-> (<<"source excerpt", "room", "location", "defect", "work type">>),
     rows |-> [i \in 1..Len(analysis_results) |->
                 LET rec == analysis_results[i]
                 IN  <<rec.source_text, rec.room, rec.location, rec.defect,
                       rec.work_type>>]]

CallCreateExcelReport ==
    /\ ret = None
    /\ ret' = Some(report_sheet(args.analysis_results))
    /\ UNCHANGED args

\* the records are DefectAnalysisResults; room, location and work_type are
\* literals of the model class, source_text is free text
InitReport ==
    /\ RunInit /\ source_url = CHOOSE u \in SourceUrls : TRUE
    /\ now = 0 /\ DirsIdle /\ ChatIdle
    /\ args \in [analysis_results :
                    SeqsUpTo([source_text : {"excerpt 1", "excerpt 2"},
                              room : {"room 1", "room 2"},
                              location : {"location 1"},
                              defect : {"ventilation_system_malfunction",
                                        "wallpaper_surface_defects"},
                              work_type : {"work type 1"}], MaxLen - 1)]
    /\ ret = None

NextReport == CallCreateExcelReport /\ UNCHANGED <<runvars, now, dirvars, chatvars>>

SpecReport == InitReport /\ [][NextReport]_vars

\* ------------------------ one call of extract_google_drive_file_id, any input
CallExtract ==
    /\ ret = None
    /\ ret' = Some([exc |-> extract_exc(args),
                    value |-> extract_google_drive_file_id(args)])
    /\ UNCHANGED args

InitResolve ==
    /\ RunInit /\ source_url = CHOOSE u \in SourceUrls : TRUE
    /\ now = 0 /\ DirsIdle /\ ChatIdle
    /\ args \in [netloc : {"", "example.com", "[drive.google.com"} \cup DriveNetlocs,
                  path_parts : {<<>>, <<"file", "d", "F1", "view">>, <<"file", "d">>,
                                <<"uc">>, <<"drive", "folders">>},
                  id : {<<>>, <<"F2">>}, export : {<<>>, <<"download">>}]
    /\ ret = None

NextResolve == CallExtract /\ UNCHANGED <<runvars, now, dirvars, chatvars>>

SpecResolve == InitResolve /\ [][NextResolve]_vars

\* ------------- the Document in full: OCR fragments, models.py, JSON file
\* The layouts above tell only whether a page number has fragments and
\* whether any of them carries text; here the fragments, the TextElements
\* and the counts are spelled out.

\* str.strip() on the fragment texts
strip(text) == IF text = " b " THEN "b" ELSE IF text = " " THEN "" ELSE text

TextElement(category, content) ==
    [category |-> category, content |-> content, type |-> "text"]

RECURSIVE Join(_)
\* " ".join(contents)
Join(contents) ==
    IF contents = <<>> THEN ""
    ELSE IF Len(contents) = 1 THEN contents[1]
    ELSE contents[1] \o " " \o Join(Tail(contents))

\* variant: the count that was passed in is kept
PageData_keep_count(data) == data

\* PageData.__init__: total_elements is set to len(self.elements); full_text
\* is a required field, so it is always among the data
PageData(data) == [data EXCEPT !.total_elements = Len(data.elements)]

\* DocumentData.__init__: the pages are validated as PageData, total_pages
\* is set to len(self.pages)
DocumentData(data) ==
    [filename |-> data.filename,
     total_pages |-> Len(data.pages),
     pages |-> [i \in 1..Len(data.pages) |-> PageData(data.pages[i])]]

\* the dict pages_data of process_pdf_ocr: a key for every page number
\* that has a fragment, a TextElement for every fragment with text
pages_data(elements) ==
    LET keys == {elements[i].page_number : i \in 1..Len(elements)}
        kept(k) == SelectSeq(elements,
                             LAMBDA e : e.page_number = k /\ strip(e.text) # "")
    IN  [k \in keys |->
            [i \in 1..Len(kept(k)) |->
                TextElement("NarrativeText", strip(kept(k)[i].text))]]

\* process_pdf_ocr from the grouping on: one PageData per key, ascending
ocr_document(original_filename, elements) ==
    LET grouped == pages_data(elements)
        nums == sorted(DOMAIN grouped)
    IN  DocumentData(
            [filename |-> original_filename,
             total_pages |-> Len(nums),
             pages |-> [i \in 1..Len(nums) |->
                          PageData(
                            [page_number |-> nums[i],
                             full_text |-> Join([j \in 1..Len(grouped[nums[i]]) |->
                                                   grouped[nums[i]][j].content]),
                             elements |-> grouped[nums[i]],
                             total_elements |-> Len(grouped[nums[i]])])]])

\* a JSON object is the sequence of its <<key, value>> members
Member(object, key) ==
    object[CHOOSE i \in 1..Len(object) : object[i][1] = key][2]

\* a page and, nested in it, its elements as JSON objects
DumpPage(page) ==
    << <<"page_number", page.page_number>>,
       <<"full_text", page.full_text>>,
       <<"elements", [i \in 1..Len(page.elements) |->
                        << <<"category", page.elements[i].category>>,
                           <<"content", page.elements[i].content>>,
                           <<"type", page.elements[i].type>> >>]>>,
       <<"total_elements", page.total_elements>> >>

\* variant: pages without elements are left out of the file
model_dump_json_skip_empty(document) ==
    LET written == SelectSeq(document.pages, LAMBDA page : page.elements # <<>>)
    IN  << <<"filename", document.filename>>,
           <<"total_pages", document.total_pages>>,
           <<"pages", [i \in 1..Len(written) |-> DumpPage(written[i])]>> >>

\* document.model_dump_json(): every field of every model, in field order
model_dump_json(document) ==
    << <<"filename", document.filename>>,
       <<"total_pages", document.total_pages>>,
       <<"pages", [i \in 1..Len(document.pages) |-> DumpPage(document.pages[i])]>> >>

\* the data of a page, with its elements, read from JSON objects
LoadPage(object) ==
    [page_number |-> Member(object, "page_number"),
     full_text |-> Member(object, "full_text"),
     elements |-> [i \in 1..Len(Member(object, "elements")) |->
                     [category |-> Member(Member(object, "elements")[i], "category"),
                      content |-> Member(Member(object, "elements")[i], "content"),
                      type |-> Member(Member(object, "elements")[i], "type")]],
     total_elements |-> Member(object, "total_elements")]

\* load_document_from_json: json.load, then DocumentData(**data)
load_document_from_json(text) ==
    DocumentData(
        [filename |-> Member(text, "filename"),
         total_pages |-> Member(text, "total_pages"),
         pages |-> [i \in 1..Len(Member(text, "pages")) |->
                      LoadPage(Member(text, "pages")[i])]])

\* the elements partition_pdf reports, the file name, and the counts of a
\* JSON file written elsewhere
DocumentArgs ==
    [elements : SeqsUpTo([page_number : Pages, text : {"", " ", "a", " b "}], MaxLen),
     original_filename : {"report.pdf"},
     total_pages : 0..1, total_elements : 0..1]

\* process_pdf_ocr returns the document
DocOcr ==
    /\ ret = None
    /\ ret' = Some([at |-> "ocr",
                    document |-> ocr_document(args.original_filename, args.elements),
                    json |-> None, loaded |-> None])
    /\ UNCHANGED args

\* save_ocr_result writes the JSON file
DocSave ==
    /\ ret # None /\ Get(ret).at = "ocr"
    /\ ret' = Some([Get(ret) EXCEPT
                       !.at = "saved",
                       !.json = Some(model_dump_json(Get(ret).document))])
    /\ UNCHANGED args

\* the relevance stage loads the file the OCR stage wrote
DocLoad ==
    /\ ret # None /\ Get(ret).at = "saved"
    /\ ret' = Some([Get(ret) EXCEPT
                       !.at = "loaded",
                       !.loaded = Some(load_document_from_json(Get(Get(ret).json)))])
    /\ UNCHANGED args

\* load_document_from_json on a JSON file of the same document whose count
\* fields hold other numbers
DocLoadOther ==
    /\ ret # None /\ Get(ret).at = "saved"
    /\ ret' = Some([Get(ret) EXCEPT
                       !.at = "loaded_other",
                       !.loaded =
                           Some(load_document_from_json(model_dump_json(
                               [filename |-> Get(ret).document.filename,
                                total_pages |-> args.total_pages,
                                pages |-> [i \in 1..Len(Get(ret).document.pages) |->
                                             [Get(ret).document.pages[i] EXCEPT
                                                 !.total_elements =
                                                     args.total_elements]]])))])
    /\ UNCHANGED args

InitDocument ==
    /\ RunInit /\ source_url = CHOOSE u \in SourceUrls : TRUE
    /\ now = 0 /\ DirsIdle /\ ChatIdle
    /\ args \in DocumentArgs /\ ret = None

NextDocument ==
    /\ UNCHANGED <<runvars, now, dirvars, chatvars>>
    /\ \/ DocOcr
       \/ DocSave
       \/ DocLoad
       \/ DocLoadOther

SpecDocument == InitDocument /\ [][NextDocument]_vars

\* --------------------------------- LLM usage (services/llm_usage_tracker.py)
\* a model name is the sequence of its parts between hyphens
MODEL_PRICING_PER_1K ==
    {<<"gpt", "4.1", "mini">>, <<"gpt", "4.1", "mini", "2025", "04", "14">>}

\* every entry of the table has the same two prices, here in 10^-9 USD
\* per token
Pricing(name) == [prompt |-> 150, completion |-> 600]

_normalise_model_name(model) ==
    IF model \in MODEL_PRICING_PER_1K THEN model
    ELSE IF Len(model) > 1 /\ <<model[1]>> \in MODEL_PRICING_PER_1K
    THEN <<model[1]>>
    ELSE model

\* round(x, 6) of an amount given in 10^-9 USD, as a number of 10^-6 USD;
\* at a tie the float nearest to the sum decides the direction
round6(nano, tie_up) ==
    LET q == nano \div 1000
        r == nano % 1000
    IN  IF r > 500 \/ (r = 500 /\ tie_up) THEN q + 1 ELSE q

\* variant: the price is read with MODEL_PRICING_PER_1K[normalised]
calculate_cost_usd_subscript(model, prompt_tokens, completion_tokens, tie_up) ==
    LET normalised == _normalise_model_name(model)
    IN  IF normalised \notin MODEL_PRICING_PER_1K
        THEN [exc |-> "KeyError", cost |-> None]
        ELSE [exc |-> "ok",
              cost |-> Some(round6(prompt_tokens * Pricing(normalised).prompt
                                   + completion_tokens * Pricing(normalised).completion,
                                   tie_up))]

calculate_cost_usd(model, prompt_tokens, completion_tokens, tie_up) ==
    LET normalised == _normalise_model_name(model)
    IN  IF normalised \notin MODEL_PRICING_PER_1K
        THEN [exc |-> "ok", cost |-> None]
        ELSE [exc |-> "ok",
              cost |-> Some(round6(prompt_tokens * Pricing(normalised).prompt
                                   + completion_tokens * Pricing(normalised).completion,
                                   tie_up))]

RECURSIVE count_prompt_tokens(_)
\* the tokens of every message's text plus 4 per message; a message is
\* given by the length of its encoding
count_prompt_tokens(messages) ==
    IF messages = <<>> THEN 0
    ELSE messages[1] + 4 + count_prompt_tokens(Tail(messages))

log_chat_completion_usage(model, messages, usage, completion_text, tie_up) ==
    LET counted == count_prompt_tokens(messages)
        prompt_tokens == IF usage = None THEN counted
                         ELSE Or(Some(Get(usage).prompt_tokens), counted)
        reported == IF usage = None THEN None ELSE Get(usage).completion_tokens
        completion_tokens == IF reported = None THEN completion_text
                             ELSE Get(reported)
        total_tokens == IF usage = None \/ Get(usage).total_tokens = None
                        THEN Some(prompt_tokens + completion_tokens)
                        ELSE Get(usage).total_tokens
        cost == calculate_cost_usd(model, prompt_tokens, completion_tokens, tie_up)
    IN  IF cost.exc # "ok"
        THEN [exc |-> cost.exc, prompt_tokens |-> 0, completion_tokens |-> 0,
              total_tokens |-> 0, cost_usd |-> None]
        ELSE [exc |-> "ok",
              prompt_tokens |-> prompt_tokens,
              completion_tokens |-> completion_tokens,
              total_tokens |-> Or(total_tokens, prompt_tokens),
              cost_usd |-> cost.cost]

\* completion_text is the number of tokens of the answer's text (0 for no
\* text), consulted only when usage does not report the completion tokens;
\* completion.usage is absent, or has counts of which the last two may be None
UsageArgs ==
    {a \in [model : MODEL_PRICING_PER_1K
                    \cup {<<"gpt", "4.1", "mini", "2025", "05", "01">>,
                          <<"gpt", "4o">>, <<"gpt">>, <<"o3">>},
            messages : SeqsUpTo(0..MaxTokens, MaxMessages),
            usage : {None}
                    \cup {Some(u) : u \in
                            [prompt_tokens : 0..MaxTokens,
                             completion_tokens : {None} \cup {Some(n) : n \in 0..MaxTokens},
                             total_tokens : {None} \cup {Some(n) : n \in 0..MaxTokens}]},
            completion_text : 0..MaxTokens, tie_up : BOOLEAN] :
        (a.usage # None /\ Get(a.usage).completion_tokens # None)
        => a.completion_text = 0}

CallLogUsage ==
    /\ ret = None
    /\ ret' = Some(log_chat_completion_usage(args.model, args.messages, args.usage,
                                             args.completion_text, args.tie_up))
    /\ UNCHANGED args

InitUsage ==
    /\ RunInit /\ source_url = CHOOSE u \in SourceUrls : TRUE
    /\ now = 0 /\ DirsIdle /\ ChatIdle
    /\ args \in UsageArgs /\ ret = None

NextUsage == CallLogUsage /\ UNCHANGED <<runvars, now, dirvars, chatvars>>

SpecUsage == InitUsage /\ [][NextUsage]_vars

\* ------------------------------------------------------------ properties
\* the result field each stage records
results ==
    [download |-> download_info, ocr |-> ocr_info, semantic |-> semantic_info,
     vlm |-> vlm_result, analysis |-> analysis_info]

\* the kinds of file each stage writes into the working directory
ArtifactKinds(stage) ==
    CASE stage = "download" -> {"pdf"}
      [] stage = "ocr" -> {"json", "txt"}
      [] stage = "analysis" -> {"xlsx"}
      [] OTHER -> {}

\* this step is a call of stage method s
Calls(s) == ncalls' # ncalls /\ last'.stage = s

\* C1: an external engine of a stage has been invoked only if every earlier
\* stage of the run has returned normally at some point before
C1_EngineOnlyAfterEarlierStages ==
    \A s \in StageNames : engine_runs[s] > 0 => EarlierStages(s) \subseteq completed

\* the extraction LLM was reached in a run that needed more than five calls
C1_Witness ==
    /\ last.stage = "analysis" /\ Probe("llm", 0) \in Invoked(last.log)
    /\ ncalls > 5

\* C2: run_vlm_cleaning without a completed relevance stage, run_ocr without
\* a completed download and run_semantic_analysis without a completed OCR
\* raise PipelineError, invoke no engine and change no field and no file
C2_OutOfOrderCallRefused ==
    [][ (\/ Calls("vlm") /\ "semantic" \notin completed
         \/ Calls("ocr") /\ "download" \notin completed
         \/ Calls("semantic") /\ "ocr" \notin completed)
        => /\ last'.exc = "PipelineError"
           /\ last'.log = <<>>
           /\ fields' = fields /\ files' = files ]_vars

\* scenario E: cleaning was called after OCR but before relevance selection
C2_Witness ==
    /\ last.stage = "vlm" /\ last.exc = "PipelineError"
    /\ "ocr" \in completed /\ "semantic" \notin completed

\* C3: run_analysis_and_report on a run whose cleaning stage never completed
\* fails with PipelineError and nothing else, before the LLM is invoked
C3_AnalysisWithoutCleaningIsPipelineError ==
    (last.stage = "analysis" /\ "vlm" \notin completed)
    => (last.exc = "PipelineError" /\ last.log = <<>>)

\* C4: while the recorded relevant-page list is empty, no call reaches the
\* vision model or the extraction LLM (an empty selection is itself a
\* normal return of run_semantic_analysis)
C4_NoLaterEngineWhileEmpty ==
    (/\ semantic_info # None
     /\ Get(semantic_info).relevant_pages = <<>>
     /\ last.stage \in {"vlm", "analysis"})
    => last.log = <<>>

\* C5: a call of a stage method whose stage has already completed invokes
\* no engine and leaves the recorded result of that stage as it was
C5_CompletedStageNotRerun ==
    [][ \A s \in StageNames :
          (Calls(s) /\ s \in completed)
          => (last'.log = <<>> /\ results'[s] = results[s]) ]_vars

\* C6: a download answered with a non-success status raises, writes no
\* file and leaves pdf_path and download_info as they were (unset stays
\* unset); with pdf_path unset run_ocr does not invoke the OCR engine
C6_FailedStatusLeavesNothing ==
    [][ /\ (Calls("download") /\ last'.exc = "PipelineError" /\ last'.log # <<>>)
           => /\ files' = files
              /\ pdf_path' = pdf_path /\ download_info' = download_info
        /\ (Calls("ocr") /\ pdf_path = None) => last'.log = <<>> ]_vars

\* scenario C: the first download got a non-success status; the working
\* directory holds no file and nothing is recorded
C6_Witness ==
    /\ last = Call("download", "PipelineError", <<Invoke("get", 0, FALSE)>>)
    /\ pdf_path = None /\ download_info = None
    /\ \A p \in Paths : files[p] = None

C8_NoRetryWithinCall ==
    /\ \A i, j \in 1..Len(last.log) :
          i # j => Probe(last.log[i].engine, last.log[i].page)
                     # Probe(last.log[j].engine, last.log[j].page)
    /\ \A i \in 1..Len(last.log) :
          ~last.log[i].ok => (i = Len(last.log) /\ last.exc # "ok")

\* the vision call failed on page 1 of the pages 1, 2: page 2 was not tried
C8_Witness ==
    /\ last.stage = "vlm" /\ last.exc = "EngineError"
    /\ Get(semantic_info).relevant_pages = <<1, 2>>
    /\ last.log = <<Invoke("raster", 1, TRUE), Invoke("vision", 1, FALSE)>>

\* C9: two runs of one process never have the same working directory, and
\* so never write the same path
C9_WorkingDirectoriesDistinct ==
    \A r1, r2 \in Runs :
        (r1 # r2 /\ run_dir[r1] # None /\ run_dir[r2] # None)
        => /\ run_dir[r1] # run_dir[r2]
           /\ run_writes[r1] \cap run_writes[r2] = {}

\* C10: in concurrent chat flows the relevance stage of a flow reads the
\* OCR JSON of that flow's own document, and the spreadsheet a user
\* receives was produced from that user's document
C10_FlowsUseOwnArtifacts ==
    \A f \in Flows :
        /\ flow[f].read_doc # None => Get(flow[f].read_doc).src.data = f
        /\ \A i \in 1..Len(outbox[f]) :
              outbox[f][i].kind = "spreadsheet"
              => /\ outbox[f][i].payload # None
                 /\ \A k \in 1..Len(Get(outbox[f][i].payload).texts) :
                       Get(outbox[f][i].payload).texts[k] = f

PageNumbers(document) ==
    {document.pages[i].page_number : i \in 1..Len(document.pages)}

Ascending(seq) == \A i, j \in 1..Len(seq) : i < j => seq[i] < seq[j]

\* the limit and the threshold the caller configured: the value passed, or
\* the documented default when none is passed
ConfiguredLimit(a) ==
    IF a.top_limit = None THEN SEMANTIC_TOP_PAGES_LIMIT ELSE Get(a.top_limit)

ConfiguredThreshold(a) ==
    IF a.score_threshold = None THEN SEMANTIC_SCORE_THRESHOLD
    ELSE Get(a.score_threshold)

\* C11: whatever the document, the scores, the threshold and the top-N
\* limit, the relevant-page result holds only page numbers of the document,
\* holds none twice, has at most top-N entries, and its pipeline-level view
\* is ascending
C11_SelectionWellFormed ==
    (ret # None /\ Get(ret).exc = "ok")
    => LET r == Get(ret)
       IN  /\ Range(r.relevant_pages) \subseteq PageNumbers(SelectDocument(args))
           /\ Range(r.sorted_unique) \subseteq PageNumbers(SelectDocument(args))
           /\ \A i, j \in 1..Len(r.relevant_pages) :
                  i # j => r.relevant_pages[i] # r.relevant_pages[j]
           /\ Len(r.relevant_pages) <= ConfiguredLimit(args)
           /\ Len(r.sorted_unique) <= ConfiguredLimit(args)
           /\ Ascending(r.sorted_unique)

\* the pages that qualify: text pages whose score is defined and at least
\* the configured threshold
Qualifying(a) ==
    {p \in SelPages : /\ a.layout[p] = "text"
                      /\ a.answers[p].score # None
                      /\ Get(a.answers[p].score) >= ConfiguredThreshold(a)}

\* C12: the pipeline-level list is the reference result: of the qualifying
\* pages the N highest-scoring ones, listed ascending
C12_SelectionIsReference ==
    (ret # None /\ Get(ret).exc = "ok")
    => LET R == Range(Get(ret).sorted_unique)
           Q == Qualifying(args)
           N == ConfiguredLimit(args)
       IN  /\ R \subseteq Q
           /\ Cardinality(R) = (IF Cardinality(Q) < N THEN Cardinality(Q) ELSE N)
           /\ \A p \in R, q \in Q \ R :
                  Get(args.answers[p].score) >= Get(args.answers[q].score)
           /\ Get(ret).sorted_unique = sorted(R)

\* C13: a page without text is never sent to the scoring engine and is never
\* selected; a document without pages gives an empty result and no error
C13_BlankPagesSkipped ==
    ret # None
    => LET r == Get(ret)
       IN  /\ \A p \in SelPages :
                  args.layout[p] # "text"
                  => /\ Probe("score", p) \notin Invoked(r.log)
                     /\ p \notin Range(r.relevant_pages)
                     /\ p \notin Range(r.sorted_unique)
           /\ (SelectDocument(args).pages = <<>> /\ args.router_ok)
              => (r.exc = "ok" /\ r.relevant_pages = <<>> /\ r.log = <<>>)

C13_Witness ==
    /\ ret # None /\ Get(ret).exc = "ok"
    /\ args.layout[1] = "blank" /\ args.layout[2] = "text"
    /\ Get(ret).sorted_unique = <<2>>
    /\ Invoked(Get(ret).log) = {Probe("score", 2)}

\* C14: when the scoring engine cannot be set up or raises on a page, the
\* relevance stage fails: it raises, and semantic_info is left as it was
\* (unset, if it was unset), also when earlier pages had been scored
C14_SelectionFailsAsAWhole ==
    [][(/\ Calls("semantic")
        /\ run_semantic_guard = "ok"
        /\ \/ last'.exc = "ValueError"
           \/ \E i \in 1..Len(last'.log) : ~last'.log[i].ok)
       => /\ last'.exc \in {"ValueError", "EngineError"}
          /\ semantic_info' = semantic_info]_vars

C14_Witness ==
    /\ last.stage = "semantic" /\ last.exc = "EngineError"
    /\ Len(last.log) = 2 /\ last.log[1].ok /\ ~last.log[2].ok
    /\ semantic_info = None

\* C15: process_pages rasterises and submits pages in ascending page order
\* whatever the order of the list; a failure on a page is the last thing the
\* call does, the call raises, returns nothing, and the run's cleaned-page
\* result stays unset
C15_AscendingAndAbortOnFailure ==
    ret # None
    => LET r == Get(ret)
       IN  /\ \A i, j \in 1..Len(r.log) :
                  i < j => /\ r.log[i].page <= r.log[j].page
                           /\ r.log[i].engine = r.log[j].engine
                              => r.log[i].page < r.log[j].page
           /\ \A i \in 1..Len(r.log) :
                  ~r.log[i].ok => (i = Len(r.log) /\ r.exc # "ok")
           /\ r.exc # "ok"
              => (r.result = None /\ vlm_result = None /\ vlm_info = None)

\* pages 3, 1, 2 requested, the vision call fails on page 2: page 1 was
\* cleaned first and page 3 was never rasterised
C15_Witness ==
    /\ ret # None /\ args.page_numbers = <<3, 1, 2>>
    /\ Get(ret).exc = "EngineError"
    /\ Get(ret).log = <<Invoke("raster", 1, TRUE), Invoke("vision", 1, TRUE),
                        Invoke("raster", 2, TRUE), Invoke("vision", 2, FALSE)>>

\* C16: a successful process_pages returns one cleaned page per distinct
\* requested page number, ascending, and processed_pages is their count
C16_OneCleanedPagePerDistinctNumber ==
    (ret # None /\ Get(ret).exc = "ok")
    => LET res == Get(Get(ret).result)
           nums == [i \in 1..Len(res.cleaned_pages) |->
                       res.cleaned_pages[i].page_number]
       IN  /\ nums = sorted(Range(args.page_numbers))
           /\ Ascending(nums)
           /\ res.processed_pages = Len(res.cleaned_pages)

C16_Witness ==
    /\ ret # None /\ Get(ret).exc = "ok"
    /\ args.page_numbers = <<2, 1, 2>>
    /\ Get(Get(ret).result).processed_pages = 2

\* C17: with zero page texts every entry point of the Defect Extractor
\* rejects the input (raises) and does not call the extraction LLM
C17_EmptyInputRejected ==
    (ret # None /\ args.page_texts = <<>>)
    => (Get(ret).exc # "ok" /\ Get(ret).log = <<>>)

\* C18: when the LLM returns no defect record for a non-empty input, the
\* call returns normally and has called the LLM exactly once, in the
\* orchestrator and in the chat flow's function
C18_NoFindingsIsNotAnError ==
    (/\ ret # None
     /\ args.entry \in {"run_analysis_and_report",
                        "analyze_vlm_cleaned_pages_with_excel"}
     /\ args.page_texts # <<>>
     /\ args.llm = [kind |-> "ok", defects |-> 0]
     /\ args.excel_ok)
    => (Get(ret).exc = "ok" /\ Len(Get(ret).log) = 1)

\* C19: the sheet has the five captions in the fixed order, then one row
\* per defect record in input order; the defect cell holds the display
\* name of the record's defect key
C19_ReportRowsAndColumns ==
    ret # None
    => LET sheet == Get(ret)
           recs == args.analysis_results
       IN  /\ sheet.header = <<"source excerpt", "room", "location", "defect",
                               "work type">>
           /\ Len(sheet.rows) = Len(recs)
           /\ \A i \in 1..Len(recs) :
                  sheet.rows[i] = <<recs[i].source_text, recs[i].room,
                                    recs[i].location,
                                    get_defect_full_name(recs[i].defect),
                                    recs[i].work_type>>

\* the path has the shape /file/d/<id>/..
HasFilePath(url) ==
    Len(url.path_parts) >= 3 /\ url.path_parts[1] = "file" /\ url.path_parts[2] = "d"

\* C20: for a Google Drive URL of the shape /file/d/<id>/view, ?id=<id> or
\* ?export=download&id=<id> the result is <id>; for a string that is not a
\* URL or has no file reference it is None; no input makes the call raise
C20_FileIdExtractedOrNone ==
    ret # None
    => LET r == Get(ret)
       IN  /\ r.exc = "ok"
           /\ (args.netloc \in DriveNetlocs /\ HasFilePath(args))
              => r.value = Some(args.path_parts[3])
           /\ (args.netloc \in DriveNetlocs /\ ~HasFilePath(args) /\ args.id # <<>>)
              => r.value = Some(args.id[1])
           /\ (args.netloc = "" \/ (~HasFilePath(args) /\ args.id = <<>>))
              => r.value = None

\* C21: every page of the Document the OCR stage produces has at least one
\* TextElement and a non-empty full text; a page number whose fragments are
\* all blank is not among the pages
C21_NoPageWithoutText ==
    ret # None
    => \A i \in 1..Len(Get(ret).document.pages) :
          /\ Get(ret).document.pages[i].elements # <<>>
          /\ Get(ret).document.pages[i].full_text # ""

CountsAgree(document) ==
    /\ document.total_pages = Len(document.pages)
    /\ \A i \in 1..Len(document.pages) :
          document.pages[i].total_elements = Len(document.pages[i].elements)

\* C22: in every state, the Document built by the OCR stage and the
\* Document loaded from JSON have total_pages equal to the number of pages
\* and, on every page, total_elements equal to the number of elements,
\* whatever counts were passed in
C22_CountsAgree ==
    ret # None
    => /\ CountsAgree(Get(ret).document)
       /\ Get(ret).loaded # None => CountsAgree(Get(Get(ret).loaded))

\* a file with other counts was loaded: a page with two elements, stored
\* count 0
C22_Witness ==
    /\ ret # None /\ Get(ret).at = "loaded_other"
    /\ args.total_elements = 0 /\ args.total_pages = 0
    /\ \E i \in 1..Len(Get(Get(ret).loaded).pages) :
          Len(Get(Get(ret).loaded).pages[i].elements) = 2

\* C23: the Document reloaded from the JSON the OCR stage saved has the
\* same filename, the same total_pages, and page by page the same page
\* number, full text and elements
C23_JsonRoundTrip ==
    (ret # None /\ Get(ret).at = "loaded")
    => LET d == Get(ret).document
           l == Get(Get(ret).loaded)
       IN  /\ l.filename = d.filename
           /\ l.total_pages = d.total_pages
           /\ Len(l.pages) = Len(d.pages)
           /\ \A i \in 1..Len(d.pages) :
                  /\ l.pages[i].page_number = d.pages[i].page_number
                  /\ l.pages[i].full_text = d.pages[i].full_text
                  /\ l.pages[i].elements = d.pages[i].elements

\* two pages, one of them without any element, survive the round trip
C23_Witness ==
    /\ ret # None /\ Get(ret).at = "loaded"
    /\ Len(Get(Get(ret).loaded).pages) = 2
    /\ Get(Get(ret).loaded).pages[1].elements = <<>>
    /\ Get(Get(ret).loaded).pages[2].full_text = "a b"

\* C24: when a chat handler has returned (normally or by raising), the
\* temporary input file created for that run no longer exists
C24_TempFileRemoved ==
    \A f \in Flows : flow[f].pc \in {"done", "raised"} => f \notin tmp_files

\* C25: a synchronous engine call of one chat flow runs off the event
\* loop: while the flow is inside it, the loop can resume the other flows
C25_EngineCallsOffTheLoop ==
    \A f \in Flows :
        flow[f].pc \in {"await_ocr"} \cup OnLoop => Flows \ {f} \subseteq Runnable

\* C26: for an empty list of page numbers process_pages raises ValueError
\* and run_vlm_cleaning raises PipelineError, before any page is rasterised
\* or sent to the vision model; no call returns a result without pages
C26_EmptyPageListRefused ==
    ret # None
    => /\ args.page_numbers = <<>>
          => /\ Get(ret).exc = (IF args.entry = "process_pages"
                                THEN "ValueError" ELSE "PipelineError")
             /\ Get(ret).log = <<>>
             /\ Get(ret).result = None /\ vlm_result = None /\ vlm_info = None
       /\ Get(ret).exc = "ok"
          => Get(Get(ret).result).cleaned_pages # <<>>

\* process_pages was called directly with the empty list
C26_Witness ==
    /\ ret # None /\ args.entry = "process_pages" /\ args.page_numbers = <<>>
    /\ Get(ret).exc = "ValueError"

C28_ResultsDeriveFromPredecessor ==
    /\ ocr_info # None
       => /\ pdf_path # None
          /\ Get(ocr_info).document.filename = Get(pdf_path)
          /\ Some(Get(ocr_info).document.src) = files[<<"pdf", Get(pdf_path)>>]
    /\ semantic_info # None
       => /\ ocr_info # None
          /\ files[<<"json", Get(ocr_info).json_path>>]
                = Some([doc |-> Get(ocr_info).document])
          /\ \A n \in Range(Get(semantic_info).relevant_pages) :
                \E i \in 1..Len(Get(ocr_info).document.pages) :
                    /\ Get(ocr_info).document.pages[i].page_number = n
                    /\ Get(ocr_info).document.pages[i].has_text
    /\ vlm_result # None
       => /\ semantic_info # None /\ pdf_path # None
          /\ [i \in 1..Len(Get(vlm_result).cleaned_pages) |->
                 Get(vlm_result).cleaned_pages[i].page_number]
                = Get(semantic_info).relevant_pages
          /\ Get(vlm_result).source_pdf = Get(pdf_path)
          /\ Some(Get(vlm_result).source_file) = files[<<"pdf", Get(pdf_path)>>]

\* C29: when handle_full_defect_analysis has ended for a message that
\* passed validation, the user has been shown exactly one terminal outcome:
\* the spreadsheet, the warning, or an error message
C29_ExactlyOneOutcome ==
    \A f \in Flows :
        (flow[f].pc \in {"done", "raised"} /\ passes_validation(msg[f]))
        => Len(outbox[f]) = 1

\* C30: in every state of a run, pdf_path refers to a file whose download
\* completed in full, and a recorded OCR document was read from such a file
C30_PdfPathNeverPartial ==
    /\ pdf_path # None
       => /\ files[<<"pdf", Get(pdf_path)>>] # None
          /\ Get(files[<<"pdf", Get(pdf_path)>>]).complete
    /\ ocr_info # None => Get(ocr_info).document.src.complete

====
